---- MODULE Spec2Model ----
(***************************************************************************)
(* Model of SingleCalc.py: a Streamlit page that computes the voltage drop *)
(* over a wire run and keeps a per-session table of recorded calculations. *)
(* Every user interaction reruns the script run(); the "Clear Records"     *)
(* button first calls the callback clear_data and then reruns the script.  *)
(* Numbers are exact rationals (numerator, denominator in lowest terms),   *)
(* standing for the magnitudes of the quantities the script computes with. *)
(***************************************************************************)
EXTENDS Integers, Sequences, FiniteSets, TLC

VARIABLES
    csv_file,       \* what the file 'wire_resistance.csv' on disk is
    widgets,        \* per session: the values of the input widgets
    session_state,  \* per session: Streamlit's st.session_state, a dict
    page,           \* per session: what the last execution of run() rendered
    last_event,     \* the session and kind of the latest user interaction
    edits           \* number of widget edits so far, all sessions together

vars == <<csv_file, widgets, session_state, page, last_event, edits>>

(* ------------------------------ bounds --------------------------------- *)

\* largest value the user steps the "Number of Conductors" input to
MaxConductors == 2
\* cap on the number of rows the model lets a record table grow to
MaxRecords == 2
\* cap on the number of widget edits (all sessions together) in a behaviour
MaxEdits == 1

Sessions == {"s1", "s2"}

(* ---------------------------- rationals -------------------------------- *)

Abs(x) == IF x < 0 THEN -x ELSE x

RECURSIVE GCD(_, _)
GCD(a, b) == IF b = 0 THEN a ELSE GCD(b, a % b)

\* the rational n/d (d # 0) in lowest terms with a positive denominator
Rat(n, d) ==
    LET g == GCD(Abs(n), Abs(d))
        s == IF d < 0 THEN -1 ELSE 1
    IN  [n |-> s * (n \div g), d |-> s * (d \div g)]

R(k) == [n |-> k, d |-> 1]
Zero == R(0)
One == R(1)

RMul(a, b) == Rat(a.n * b.n, a.d * b.d)
RSub(a, b) == Rat(a.n * b.d - b.n * a.d, a.d * b.d)
\* a / b for b # 0 (the callers raise ZeroDivisionError before dividing by 0)
RDiv(a, b) == Rat(a.n * b.d, a.d * b.n)
RLess(a, b) == a.n * b.d < b.n * a.d
RAbs(a) == [n |-> Abs(a.n), d |-> a.d]

(* ------------------------- optional values ----------------------------- *)

\* Python's None and a present value, as sequences of length 0 and 1
None == << >>
Some(x) == <<x>>
IsNone(o) == Len(o) = 0
Get(o) == o[1]

(* ------------------------ DataFrames and files -------------------------- *)

\* a pandas DataFrame: its column labels in order and its rows in order,
\* each row a function from column label to value
DataFrame(columns, rows) == [columns |-> columns, rows |-> rows]

\* DataFrame.columns membership: `label in df.columns`
HasColumn(df, label) == \E j \in 1..Len(df.columns) : df.columns[j] = label

\* DataFrame.empty: true when either axis has length 0
Empty(df) == Len(df.rows) = 0 \/ Len(df.columns) = 0

\* zip(keys, values): the pairs in order
zip(keys, values) == [j \in 1..Len(keys) |-> <<keys[j], values[j]>>]

\* pd.DataFrame([dict(pairs)]): one row, columns in the dict's insertion order
DataFrameOfDict(pairs) ==
    DataFrame([j \in 1..Len(pairs) |-> pairs[j][1]],
              << [k \in {pairs[j][1] : j \in 1..Len(pairs)} |->
                     pairs[CHOOSE j \in 1..Len(pairs) : pairs[j][1] = k][2]] >>)

\* pd.concat([a, b], ignore_index=True): a's columns, then b's columns that a
\* lacks; a's rows followed by b's rows, renumbered
concat(a, b) ==
    LET isNew(c) == ~HasColumn(a, c)
    IN  DataFrame(a.columns \o SelectSeq(b.columns, isNew), a.rows \o b.rows)

\* index of the default option of the "Wire Size (AWG)" select box
SelectIndex == 10

WireRows == 11
Awg(i) == 36 - 2 * i

\* resistance at 25C in ohm per 1000 ft of the rows of wire_resistance.csv;
\* the row at SelectIndex holds 3.07 ohm/kft
DefaultR25c ==
    << Rat(2658, 10), Rat(1672, 10), Rat(1052, 10), Rat(6617, 100),
       Rat(4162, 100), Rat(2617, 100), Rat(1646, 100), Rat(1035, 100),
       Rat(651, 100), Rat(409, 100), Rat(307, 100) >>

\* wire_resistance.csv, parsed: its columns and rows
DefaultTable ==
    DataFrame(<<"awg", "r_25c">>,
              [i \in 1..WireRows |-> [awg |-> Awg(i), r_25c |-> DefaultR25c[i]]])

\* an uploaded table with the same columns and other resistances
CustomTable ==
    DataFrame(<<"awg", "r_25c">>,
              [i \in 1..WireRows |->
                 [awg |-> Awg(i), r_25c |-> RMul(DefaultR25c[i], Rat(8, 5))]])

\* an uploaded table without the r_25c column
NoR25cTable ==
    DataFrame(<<"awg", "r_75c">>,
              [i \in 1..WireRows |-> [awg |-> Awg(i), r_75c |-> DefaultR25c[i]]])

\* an uploaded table with the columns and too few rows for the select box
ShortTable ==
    DataFrame(<<"awg", "r_25c">>,
              [i \in 1..2 |-> [awg |-> Awg(i), r_25c |-> DefaultR25c[i]]])

\* the parsed content of each file the model knows
FileTable(f) ==
    CASE f = "default"  -> DefaultTable
      [] f = "custom"   -> CustomTable
      [] f = "no_r_25c" -> NoR25cTable
      [] f = "short"    -> ShortTable

\* pd.read_csv: the exception it raises ("" when it returns) and the table
read_csv(f) ==
    CASE f = "missing"   -> [raised |-> "FileNotFoundError", df |-> None]
      [] f = "empty"     -> [raised |-> "EmptyDataError", df |-> None]
      [] f = "malformed" -> [raised |-> "ParserError", df |-> None]
      [] OTHER           -> [raised |-> "", df |-> Some(FileTable(f))]

\* parse_csv: the DataFrame, or None after printing when read_csv raised one
\* of the three exceptions it catches (parse_csv_result: lines 68-74, given
\* what read_csv did)
parse_csv_result(r) ==
        CASE r.raised = "" -> [ret |-> r.df, printed |-> ""]
          [] r.raised = "FileNotFoundError" ->
               [ret |-> None, printed |-> "Error: The file was not found."]
          [] r.raised = "EmptyDataError" ->
               [ret |-> None, printed |-> "Error: The file is empty."]
          [] r.raised = "ParserError" ->
               [ret |-> None, printed |-> "Error: There was an issue parsing the file."]

parse_csv(file_path) == parse_csv_result(read_csv(file_path))

(* ------------------------------ units ----------------------------------- *)

\* str(x) + ' unit': the text of a number followed by a unit name
UnitText(x, unit) == [num |-> x, unit |-> unit]

\* units.load: the quantity a text denotes
UnitsLoad(text) == [mag |-> text.num, unit |-> text.unit]

(* --------------------------- the calculation ---------------------------- *)

\* voltage_at_load with the percent drop taken relative to the load voltage
\* instead of the source voltage
voltage_at_load_pct_of_load(v_in, r, i) ==
    LET v_drop == RMul(i, r)
        v_load == RSub(v_in, v_drop)
    IN  IF v_drop # Zero /\ v_load = Zero
        THEN [raised |-> "ZeroDivisionError", v_load |-> None, v_pct |-> None]
        ELSE LET v_pct == IF v_drop # Zero
                          THEN RMul(RDiv(v_drop, v_load), R(100))
                          ELSE Zero
             IN  [raised |-> "", v_load |-> Some(v_load),
                  v_pct |-> Some(UnitsLoad(UnitText(v_pct, "percent")))]

\* voltage_at_load: raises ZeroDivisionError when the drop is not 0 and the
\* source voltage is 0; otherwise returns the load voltage and the percent drop
voltage_at_load(v_in, r, i) ==
    LET v_drop == RMul(i, r)
        v_load == RSub(v_in, v_drop)
    IN  IF v_drop # Zero /\ v_in = Zero
        THEN [raised |-> "ZeroDivisionError", v_load |-> None, v_pct |-> None]
        ELSE LET v_pct == IF v_drop # Zero
                          THEN RMul(RSub(One, RDiv(v_load, v_in)), R(100))
                          ELSE Zero
             IN  [raised |-> "", v_load |-> Some(v_load),
                  v_pct |-> Some(UnitsLoad(UnitText(v_pct, "percent")))]

\* the total resistance multiplied by the conductor count instead of divided
TotalResistance_times(wire_length, wire_resistivity, number_of_conductors) ==
    RMul(RDiv(RMul(RMul(R(2), wire_length), wire_resistivity.mag),
              UnitsLoad(UnitText(R(1000), "ft/kft")).mag),
         R(number_of_conductors))

\* line 143 of run(): 2 * length * resistivity / 1000 / conductors
TotalResistance(wire_length, wire_resistivity, number_of_conductors) ==
    RDiv(RDiv(RMul(RMul(R(2), wire_length), wire_resistivity.mag),
              UnitsLoad(UnitText(R(1000), "ft/kft")).mag),
         R(number_of_conductors))

\* a number input without min_value
number_input_unclamped(min_value, value) == value

\* st.number_input(min_value=..., step=1): the widget keeps the number the
\* user enters, raised to min_value when it is below it, and hands it to the
\* script
number_input(min_value, value) == IF value < min_value THEN min_value ELSE value

(* ----------------------------- the records ------------------------------ *)

voltage_record_key == "recorded_data"

voltage_record_headers ==
    << "Source Voltage", "Load Current", "Number of Conductors", "Conductor Size",
       "Conductor Length", "Load Voltage", "Percent Drop" >>

\* a dict with no keys, and a dict with one more (or one replaced) key
EmptyDict == [k \in {} |-> None]
SetItem(dict, key, value) ==
    [k \in DOMAIN dict \cup {key} |-> IF k = key THEN value ELSE dict[k]]

\* initialize_data without its test of the key: the table is always reset
initialize_data_always(session_state_ref, sst_key, headers) ==
    SetItem(session_state_ref, sst_key, DataFrame(headers, << >>))

\* initialize_data: creates the empty table only when the key is absent
initialize_data(session_state_ref, sst_key, headers) ==
    IF sst_key \notin DOMAIN session_state_ref
    THEN SetItem(session_state_ref, sst_key, DataFrame(headers, << >>))
    ELSE session_state_ref

\* clear_data that builds the empty table and does not store it
clear_data_not_stored(session_state_ref, sst_key, headers) == session_state_ref

\* clear_data: replaces the table by an empty one with the given headers
clear_data(session_state_ref, sst_key, headers) ==
    SetItem(session_state_ref, sst_key, DataFrame(headers, << >>))

(* ------------------------------- run() ---------------------------------- *)

\* what one execution of the script leaves on the page
Page(error, error_line, printed, message, wire_df, total_resistance, load_voltage, pct_drop, dataframe, clear_button) ==
    [ran |-> TRUE, error |-> error, error_line |-> error_line,
     printed |-> printed, message |-> message, wire_df |-> wire_df,
     total_resistance |-> total_resistance, load_voltage |-> load_voltage,
     pct_drop |-> pct_drop, dataframe |-> dataframe,
     clear_button |-> clear_button]

\* the page of a session whose script has not run yet
NoPage ==
    [ran |-> FALSE, error |-> "", error_line |-> 0, printed |-> "",
     message |-> "", wire_df |-> None, total_resistance |-> None,
     load_voltage |-> None, pct_drop |-> None, dataframe |-> None,
     clear_button |-> FALSE]

\* an uncaught exception at a line of run(): the script stops there
Uncaught(ss, error, line, printed, message, wire_df, total_resistance) ==
    [session_state |-> ss,
     page |-> Page(error, line, printed, message, wire_df, total_resistance,
                   None, None, None, FALSE)]

\* lines 118-123: the uploaded table checked against the columns of wire_df
\* ("raised" is the exception of line 118 when parse_csv returned None)
upload_check(wire_df, parsed) ==
    IF IsNone(parsed.ret)
    THEN [raised |-> "AttributeError", message |-> "", wire_df |-> wire_df,
          printed |-> parsed.printed]
    ELSE IF \E j \in 1..Len(wire_df.columns) :
               ~HasColumn(Get(parsed.ret), wire_df.columns[j])
         THEN [raised |-> "", message |-> "warning", wire_df |-> wire_df,
               printed |-> parsed.printed]
         ELSE [raised |-> "", message |-> "success", wire_df |-> Get(parsed.ret),
               printed |-> parsed.printed]

\* lines 116-123: the table after the upload expander, with the message shown
\* and the text parse_csv printed
upload_step(wire_df, upload_file) ==
    IF upload_file = ""
    THEN [raised |-> "", message |-> "", wire_df |-> wire_df, printed |-> ""]
    ELSE upload_check(wire_df, parse_csv(upload_file))

\* lines 169-175: the table is displayed, with the "Clear Records" button,
\* when it is not empty
display_step(ss) ==
    [session_state |-> ss,
     dataframe |-> IF Empty(ss[voltage_record_key]) THEN None
                   ELSE Some(ss[voltage_record_key]),
     clear_button |-> ~Empty(ss[voltage_record_key])]

\* the "Add to Record" button dropping a record equal to a row of the table
add_step_drop_duplicates(ss, new_voltage_record, add_clicked) ==
    IF /\ add_clicked
       /\ \A j \in 1..Len(ss[voltage_record_key].rows) :
             ss[voltage_record_key].rows[j] # DataFrameOfDict(new_voltage_record).rows[1]
    THEN SetItem(ss, voltage_record_key,
                 concat(ss[voltage_record_key], DataFrameOfDict(new_voltage_record)))
    ELSE ss

\* lines 164-167: the "Add to Record" button appends the new record
add_step(ss, new_voltage_record, add_clicked) ==
    IF add_clicked
    THEN SetItem(ss, voltage_record_key,
                 concat(ss[voltage_record_key], DataFrameOfDict(new_voltage_record)))
    ELSE ss

\* lines 153-175: the record table after the "Add to Record" button, and what
\* is displayed
record_step(ss, new_voltage_record, add_clicked) ==
    display_step(add_step(initialize_data(ss, voltage_record_key,
                                          voltage_record_headers),
                          new_voltage_record, add_clicked))

\* the page of an execution that reached the end of run()
Completed(rec, printed, message, wire_df, total_resistance, val) ==
    [session_state |-> rec.session_state,
     page |-> Page("", 0, printed, message, Some(wire_df),
                   Some(total_resistance), val.v_load, val.v_pct,
                   rec.dataframe, rec.clear_button)]

\* lines 153-175 of run(), reached with the results of the calculation
run_record(w, ss, add_clicked, printed, message, wire_df, number_of_conductors, selected_awg, total_resistance, val) ==
    Completed(record_step(ss,
                  zip(voltage_record_headers,
                      << w.source_voltage, w.load_current, number_of_conductors,
                         selected_awg, w.wire_length, Get(val.v_load),
                         Get(val.v_pct) >>),
                  add_clicked),
              printed, message, wire_df, total_resistance, val)

\* line 150 of run(): the call of voltage_at_load, which may raise
run_voltage(w, ss, add_clicked, printed, message, wire_df, number_of_conductors, selected_awg, total_resistance, val) ==
    IF val.raised # ""
    THEN Uncaught(ss, val.raised, 150, printed, message, Some(wire_df),
                  Some(total_resistance))
    ELSE run_record(w, ss, add_clicked, printed, message, wire_df,
                    number_of_conductors, selected_awg, total_resistance, val)

\* lines 143-150 of run(), given the total resistance
run_resistance(w, ss, add_clicked, printed, message, wire_df, number_of_conductors, selected_awg, total_resistance) ==
    run_voltage(w, ss, add_clicked, printed, message, wire_df,
                number_of_conductors, selected_awg, total_resistance,
                voltage_at_load(w.source_voltage, total_resistance,
                                w.load_current))

\* line 143 of run(): the division by the conductor count raises when it is 0
run_calculate(w, ss, add_clicked, printed, message, wire_df, number_of_conductors, selected_awg, wire_resistivity) ==
    IF number_of_conductors = 0
    THEN Uncaught(ss, "ZeroDivisionError", 143, printed, message, Some(wire_df),
                  None)
    ELSE run_resistance(w, ss, add_clicked, printed, message, wire_df,
                        number_of_conductors, selected_awg,
                        TotalResistance(w.wire_length, wire_resistivity,
                                        number_of_conductors))

\* lines 138-141 of run(): the resistivity of the first row of the table whose
\* awg is the selected one
Resistivity(wire_df, selected_awg) ==
    LET matches == {j \in 1..Len(wire_df.rows) : wire_df.rows[j].awg = selected_awg}
    IN  UnitsLoad(UnitText(
            wire_df.rows[CHOOSE j \in matches : \A k \in matches : j <= k].r_25c,
            "ohm/kft"))

\* lines 136-143 of run(), given the selected gauge
run_selected(w, ss, add_clicked, printed, message, wire_df, selected_awg) ==
    run_calculate(w, ss, add_clicked, printed, message, wire_df,
                  w.number_of_conductors, selected_awg,
                  Resistivity(wire_df, selected_awg))

\* lines 125-134 of run(): the select box raises when the table has no option
\* at its default index
run_select(w, ss, add_clicked, printed, message, wire_df) ==
    IF SelectIndex >= Len(wire_df.rows)
    THEN Uncaught(ss, "StreamlitAPIException", 130, printed, message,
                  Some(wire_df), None)
    ELSE run_selected(w, ss, add_clicked, printed, message, wire_df,
                      wire_df.rows[w.selected_index + 1].awg)

\* lines 116-123 of run(), given the outcome of the upload
run_uploaded(w, ss, add_clicked, first_printed, up) ==
    IF up.raised # ""
    THEN Uncaught(ss, up.raised, 118,
                  IF up.printed = "" THEN first_printed ELSE up.printed, "",
                  Some(up.wire_df), None)
    ELSE run_select(w, ss, add_clicked,
                    IF up.printed = "" THEN first_printed ELSE up.printed,
                    up.message, up.wire_df)

\* lines 101-123 of run(), reached with what parse_csv returned at line 93:
\* None has no to_csv (line 107)
run_upload(w, ss, add_clicked, first) ==
    IF IsNone(first.ret)
    THEN Uncaught(ss, "AttributeError", 107, first.printed, "", None, None)
    ELSE run_uploaded(w, ss, add_clicked, first.printed,
                      upload_step(Get(first.ret), w.upload_file))

\* run(): one execution of the script for a session with widget values w and
\* session state ss; add_clicked is the value of st.button("Add to Record")
run(csv, w, ss, add_clicked) == run_upload(w, ss, add_clicked, parse_csv(csv))

(* --------------------------- user interactions -------------------------- *)

\* what the user may enter in the inputs (magnitudes in the default units),
\* pick in the select box, and upload
Voltages == {R(0), R(24)}
Currents == {R(0), R(1)}
Lengths == {R(0), R(300)}
GaugeChoices == {0, SelectIndex}
UploadFiles == {"custom", "no_r_25c", "short", "malformed"}
CsvFiles == {"default", "missing", "empty", "malformed"}

\* the widgets' default values: '24.0 volts', '1.0 ampere', min_value, index,
\* '300 ft', no uploaded file
DefaultWidgets ==
    [source_voltage |-> R(24), load_current |-> R(1), number_of_conductors |-> 1,
     selected_index |-> SelectIndex, wire_length |-> R(300), upload_file |-> ""]

\* a widget created at a line of run() is on the page when the last execution
\* got past that line
Rendered(p, line) == p.ran /\ (p.error = "" \/ p.error_line > line)

\* the script runs for session s with widget values w on session state ss
\* an execution whose session state is one dict shared by every session
Executed_shared_state(s, kind, w, out) ==
    /\ last_event' = [session |-> s, kind |-> kind]
    /\ widgets' = [widgets EXCEPT ![s] = w]
    /\ session_state' = [t \in Sessions |-> out.session_state]
    /\ page' = [page EXCEPT ![s] = out.page]
    /\ UNCHANGED csv_file

\* the outcome of an execution for session s: st.session_state and the page
\* of that session alone
Executed(s, kind, w, out) ==
    /\ last_event' = [session |-> s, kind |-> kind]
    /\ widgets' = [widgets EXCEPT ![s] = w]
    /\ session_state' = [session_state EXCEPT ![s] = out.session_state]
    /\ page' = [page EXCEPT ![s] = out.page]
    /\ UNCHANGED csv_file

Execute(s, kind, w, ss, add_clicked) ==
    Executed(s, kind, w, run(csv_file, w, ss, add_clicked))

\* a widget edit: the new value, then a rerun without any button pressed
Edit(s, w) ==
    /\ edits < MaxEdits
    /\ w # widgets[s]
    /\ edits' = edits + 1
    /\ Execute(s, "edit", w, session_state[s], FALSE)

Init ==
    /\ csv_file \in CsvFiles
    /\ widgets = [s \in Sessions |-> DefaultWidgets]
    /\ session_state = [s \in Sessions |-> EmptyDict]
    /\ page = [s \in Sessions |-> NoPage]
    /\ last_event = [session |-> "", kind |-> "start"]
    /\ edits = 0

\* a browser opens the page: the first execution of the script
Connect(s) ==
    /\ ~page[s].ran
    /\ Execute(s, "connect", widgets[s], session_state[s], FALSE)
    /\ UNCHANGED edits

\* the user reruns the script without touching a widget
Rerun(s) ==
    /\ page[s].ran
    /\ Execute(s, "rerun", widgets[s], session_state[s], FALSE)
    /\ UNCHANGED edits

SetSourceVoltage(s) ==
    /\ Rendered(page[s], 97)
    /\ \E v \in Voltages : Edit(s, [widgets[s] EXCEPT !.source_voltage = v])

SetLoadCurrent(s) ==
    /\ Rendered(page[s], 98)
    /\ \E i \in Currents : Edit(s, [widgets[s] EXCEPT !.load_current = i])

UploadFile(s) ==
    /\ Rendered(page[s], 112)
    /\ \E f \in UploadFiles \cup {""} :
          Edit(s, [widgets[s] EXCEPT !.upload_file = f])

\* line 127: the user enters a conductor count in the number input
SetConductors(s) ==
    /\ Rendered(page[s], 127)
    /\ \E n \in 0..MaxConductors :
          Edit(s, [widgets[s] EXCEPT !.number_of_conductors = number_input(1, n)])

SelectAwg(s) ==
    /\ Rendered(page[s], 130)
    /\ \E a \in GaugeChoices : Edit(s, [widgets[s] EXCEPT !.selected_index = a])

SetWireLength(s) ==
    /\ Rendered(page[s], 136)
    /\ \E l \in Lengths : Edit(s, [widgets[s] EXCEPT !.wire_length = l])

\* the "Add to Record" button: a rerun in which st.button returns True
AddToRecord(s) ==
    /\ Rendered(page[s], 164)
    /\ Len(session_state[s][voltage_record_key].rows) < MaxRecords
    /\ Execute(s, "add", widgets[s], session_state[s], TRUE)
    /\ UNCHANGED edits

\* the "Clear Records" button: the callback clear_data, then a rerun
ClearRecords(s) ==
    /\ page[s].clear_button
    /\ Execute(s, "clear", widgets[s],
               clear_data(session_state[s], voltage_record_key,
                          voltage_record_headers), FALSE)
    /\ UNCHANGED edits

Next ==
    \E s \in Sessions :
        \/ Connect(s)
        \/ Rerun(s)
        \/ SetSourceVoltage(s)
        \/ SetLoadCurrent(s)
        \/ UploadFile(s)
        \/ SetConductors(s)
        \/ SelectAwg(s)
        \/ SetWireLength(s)
        \/ AddToRecord(s)
        \/ ClearRecords(s)

Spec == Init /\ [][Next]_vars

(* ------------------------------ properties ------------------------------ *)

\* the record table of session s, before and after a step
Table(s) == session_state[s][voltage_record_key]
HasTable(s) == voltage_record_key \in DOMAIN session_state[s]

\* the execution of run() for session s got as far as calling voltage_at_load
ReachedVoltage(s) == page[s].ran /\ ~IsNone(page[s].total_resistance)

\* the execution of run() for session s reached its end
Finished(s) == page[s].ran /\ page[s].error = ""

\* resistance per 1000 ft of the row selected in the table the page used
SelectedR25c(s) ==
    Get(page[s].wire_df).rows[widgets[s].selected_index + 1].r_25c

\* C1: for every source voltage V, resistance R and current I, voltage_at_load
\* returns load = V - I*R and pct = 0 when I*R = 0, otherwise
\* pct = (1 - load/V)*100, unclamped: whenever run() calls it, it returns.
C1_VoltageAtLoadReturns ==
    \A s \in Sessions :
        ReachedVoltage(s) =>
            /\ page[s].error = ""
            /\ Get(page[s].load_voltage) =
                   RSub(widgets[s].source_voltage,
                        RMul(widgets[s].load_current, Get(page[s].total_resistance)))
            /\ Get(page[s].pct_drop).mag =
                   IF RMul(widgets[s].load_current, Get(page[s].total_resistance)) = Zero
                   THEN Zero
                   ELSE RMul(RSub(One, RDiv(Get(page[s].load_voltage),
                                            widgets[s].source_voltage)), R(100))

Snapshot(w, p, selected_awg) ==
    ("Source Voltage" :> w.source_voltage) @@ ("Load Current" :> w.load_current)
    @@ ("Number of Conductors" :> w.number_of_conductors)
    @@ ("Conductor Size" :> selected_awg)
    @@ ("Conductor Length" :> w.wire_length)
    @@ ("Load Voltage" :> Get(p.load_voltage)) @@ ("Percent Drop" :> Get(p.pct_drop))

\* C3: "Add to Record" appends exactly one row to the end of the session's
\* table: the table after it is the table before it followed by the snapshot
\* of the current inputs and results, whether or not an equal row is already
\* there and whatever the number of rows appended before.
C3_AddAppendsOneRow ==
    [][\A s \in Sessions :
          /\ AddToRecord(s) =>
                /\ Table(s)'.columns = Table(s).columns
                /\ Table(s)'.rows =
                      Append(Table(s).rows,
                             Snapshot(widgets'[s], page'[s],
                                      Get(page'[s].wire_df)
                                          .rows[widgets'[s].selected_index + 1].awg))]_vars

\* C3 witness: an append has just added a row equal to the row before it,
\* and the table holds as many rows as the model lets it grow to
C3_Witness ==
    \E s \in Sessions :
        /\ last_event = [session |-> s, kind |-> "add"]
        /\ Len(Table(s).rows) = MaxRecords
        /\ Table(s).rows[MaxRecords - 1] = Table(s).rows[MaxRecords]

\* C4: the clear operation leaves the session's table with zero rows and the
\* same column headers, however many rows were appended; an append to the
\* cleared table yields a table of exactly one row.
C4_ClearEmptiesTable ==
    [][\A s \in Sessions :
          /\ ClearRecords(s) =>
                /\ Table(s)'.rows = << >>
                /\ Table(s)'.columns = Table(s).columns
                /\ Table(s)'.columns = voltage_record_headers
          /\ (last_event = [session |-> s, kind |-> "clear"] /\ AddToRecord(s))
                => Len(Table(s)'.rows) = 1]_vars

\* C4 witness: a session has just cleared its table, which is empty
C4_Witness ==
    \E s \in Sessions :
        /\ last_event = [session |-> s, kind |-> "clear"]
        /\ HasTable(s)
        /\ Len(Table(s).rows) = 0

\* C5: when wire_resistance.csv is missing, empty or malformed, the failure is
\* reported and run() continues with an empty lookup table instead of crashing.
C5_LookupFailureHandled ==
    \A s \in Sessions :
        (page[s].ran /\ csv_file \in {"missing", "empty", "malformed"}) =>
            /\ page[s].printed # ""
            /\ page[s].error = ""
            /\ ~IsNone(page[s].wire_df)
            /\ Len(Get(page[s].wire_df).rows) = 0

\* the uploaded file of session s cannot be parsed or lacks a required column
UploadUnusable(s) ==
    \/ read_csv(widgets[s].upload_file).raised # ""
    \/ ~HasColumn(Get(read_csv(widgets[s].upload_file).df), "awg")
    \/ ~HasColumn(Get(read_csv(widgets[s].upload_file).df), "r_25c")

\* C6: an uploaded table that lacks a required column, or cannot be parsed at
\* all, is rejected with a warning and the table used for the rest of the run
\* is the prior one; the uploaded table replaces it only when it has every
\* required column.
C6_BadUploadRejected ==
    \A s \in Sessions :
        (page[s].ran /\ csv_file = "default" /\ widgets[s].upload_file # "") =>
            IF UploadUnusable(s)
            THEN /\ page[s].message = "warning"
                 /\ page[s].wire_df = Some(DefaultTable)
                 /\ page[s].error = ""
            ELSE page[s].wire_df # Some(DefaultTable) => page[s].message = "success"

ExampleInputs(s) ==
    /\ Finished(s)
    /\ widgets[s].source_voltage = R(24)
    /\ widgets[s].load_current = R(1)
    /\ Get(page[s].total_resistance) = Rat(1842, 1000)

C9_SessionsOwnTheirTables ==
    [][\A s \in Sessions :
          (AddToRecord(s) \/ ClearRecords(s)) =>
              \A t \in Sessions \ {s} : session_state'[t] = session_state[t]]_vars

\* C9 witness: one session has just appended to its table while another
\* session's table, already created, holds no row
C9_Witness ==
    \E s \in Sessions : \E t \in Sessions \ {s} :
        /\ last_event = [session |-> s, kind |-> "add"]
        /\ Len(Table(s).rows) >= 1
        /\ HasTable(t)
        /\ Len(Table(t).rows) = 0

\* C10: the record table persists across interactions: a step creates it
\* empty when the session has none, an "Add to Record" step appends one row
\* to it, a "Clear Records" step empties it, and every other step, a rerun
\* with neither button included, leaves it as it is.
C10_TablePersists ==
    [][\A s \in Sessions :
          \/ session_state'[s] = session_state[s]
          \/ /\ ~HasTable(s)
             /\ HasTable(s)'
             /\ Table(s)' = DataFrame(voltage_record_headers, << >>)
          \/ /\ HasTable(s)
             /\ AddToRecord(s)
             /\ SubSeq(Table(s)'.rows, 1, Len(Table(s).rows)) = Table(s).rows
             /\ Len(Table(s)'.rows) = Len(Table(s).rows) + 1
          \/ /\ HasTable(s)
             /\ ClearRecords(s)
             /\ Table(s)'.rows = << >>]_vars

\* C10 witness: a session has just rerun the script without a button and its
\* table still holds the rows appended before
C10_Witness ==
    \E s \in Sessions :
        /\ last_event = [session |-> s, kind |-> "rerun"]
        /\ HasTable(s)
        /\ Len(Table(s).rows) = MaxRecords

====
